---- MODULE Spec2Model ----
(***************************************************************************)
(* Model of pkg/controller/expcertificates/util.go: the compliance checks  *)
(* RequestMatchesSpec and SecretDataAltNamesMatchSpec, the list-and-filter *)
(* helpers, and the Secret event handler that enqueues Certificates.       *)
(***************************************************************************)
EXTENDS Integers, Sequences, FiniteSets, TLC

VARIABLES
    spec,      \* cmapi.CertificateSpec handed to the compliance checks
    req,       \* *cmapi.CertificateRequest handed to RequestMatchesSpec
    secret,    \* *corev1.Secret handed to SecretDataAltNamesMatchSpec
    edits,     \* number of changes made to spec/req/secret so far
    last,      \* record of the last completed call of a pure function
    store,     \* Certificates held by the lister's cache, in listing order
    family,    \* the WithCertificatePredicateFunc the handler was built with
    pc,        \* per handler invocation: position in the closure
    obj,       \* per handler invocation: the object passed in
    certs,     \* per handler invocation: local `certs`
    idx,       \* per handler invocation: index of the range loop
    err,       \* per handler invocation: local `err` of the listing
    added,     \* per handler invocation: keys it passed to queue.Add
    queue      \* workqueue: the set of keys pending

vars == <<spec, req, secret, edits, last, store, family, pc, obj, certs, idx, err, added, queue>>

complianceVars == <<spec, req, secret, edits>>
handlerVars == <<store, family, pc, obj, certs, idx, err, added>>

----------------------------------------------------------------------------
(* Bounds *)

MaxEdits == 2
MaxListed == 2
MaxStore == 3
NumHandlers == 2

----------------------------------------------------------------------------
(* Pointers: a nil pointer is the empty tuple, a set pointer a 1-tuple.    *)

None == <<>>
Some(v) == <<v>>
Deref(p) == p[1]

Range(s) == {s[i] : i \in 1..Len(s)}

Procs == 1..NumHandlers

InitHandlerIdle ==
    /\ pc = [p \in Procs |-> "idle"]
    /\ obj = [p \in Procs |-> None]
    /\ certs = [p \in Procs |-> <<>>]
    /\ idx = [p \in Procs |-> 0]
    /\ err = [p \in Procs |-> ""]
    /\ added = [p \in Procs |-> {}]
    /\ queue = {}

----------------------------------------------------------------------------
(* Helpers of other packages used by the compliance checks.                *)

\* Mutant: the slices are compared as multisets (same length, same entries once
\* both are sorted), so a repeated entry counts.
EqualUnsortedCounting(s1, s2) ==
    /\ Len(s1) = Len(s2)
    /\ \A v \in Range(s1) \cup Range(s2) :
          Cardinality({i \in 1..Len(s1) : s1[i] = v}) = Cardinality({i \in 1..Len(s2) : s2[i] = v})

\* util.EqualUnsorted: equality of the two slices as sets of distinct values.
EqualUnsorted(s1, s2) == Range(s1) = Range(s2)

\* util.EqualKeyUsagesUnsorted: the same over key usages.
EqualKeyUsagesUnsorted(s1, s2) == Range(s1) = Range(s2)

\* net.IP.String of the addresses the model uses.
IPString(ip) ==
    CASE ip = <<10, 0, 0, 1>> -> "10.0.0.1"
      [] ip = <<0, 0, 0, 0, 0, 0, 0, 1>> -> "::1"
      [] OTHER -> "?"

\* pki.IPAddressesToString
IPAddressesToString(ips) == [i \in 1..Len(ips) |-> IPString(ips[i])]

\* url.URL.String
URLString(u) == u.Scheme \o "://" \o u.Host \o u.Path

\* pki.URLsToString
URLsToString(uris) == [i \in 1..Len(uris) |-> URLString(uris[i])]

\* pki.DecodeX509CertificateRequestBytes
DecodeX509CertificateRequestBytes(pem) ==
    IF pem.valid THEN [x509req |-> pem.csr, err |-> ""]
    ELSE [x509req |-> None, err |-> "error decoding certificate request PEM block"]

\* pki.DecodeX509CertificateBytes
DecodeX509CertificateBytes(pem) ==
    IF pem.valid THEN [x509cert |-> pem.cert, err |-> ""]
    ELSE [x509cert |-> None, err |-> "error decoding certificate PEM block"]

----------------------------------------------------------------------------
(* RequestMatchesSpec *)

EmptySubject ==
    [SerialNumber |-> "", Countries |-> <<>>, Localities |-> <<>>,
     OrganizationalUnits |-> <<>>, PostalCodes |-> <<>>, Provinces |-> <<>>,
     StreetAddresses |-> <<>>]

Violation(mismatch, path) == IF mismatch THEN <<path>> ELSE <<>>

\* lines 159-161: a nil spec.Subject is replaced in the by-value copy
DefaultSubject(s) == IF s.Subject = None THEN [s EXCEPT !.Subject = Some(EmptySubject)] ELSE s

\* Mutant: the DNS names are compared in order.
NameViolationsOrdered(x509req, s) ==
       Violation(x509req.Subject.CommonName # s.CommonName, "spec.commonName")
    \o Violation(x509req.DNSNames # s.DNSNames, "spec.dnsNames")
    \o Violation(~EqualUnsorted(IPAddressesToString(x509req.IPAddresses), s.IPAddresses), "spec.ipAddresses")
    \o Violation(~EqualUnsorted(URLsToString(x509req.URIs), s.URISANs), "spec.uriSANs")

\* lines 164-175: common name and subject alternative names
NameViolations(x509req, s) ==
       Violation(x509req.Subject.CommonName # s.CommonName, "spec.commonName")
    \o Violation(~EqualUnsorted(x509req.DNSNames, s.DNSNames), "spec.dnsNames")
    \o Violation(~EqualUnsorted(IPAddressesToString(x509req.IPAddresses), s.IPAddresses), "spec.ipAddresses")
    \o Violation(~EqualUnsorted(URLsToString(x509req.URIs), s.URISANs), "spec.uriSANs")

\* Mutant: the province comparison is left out.
SubjectViolationsNoProvince(x509req, s) ==
    LET subj == Deref(s.Subject)
    IN  Violation(x509req.Subject.SerialNumber # subj.SerialNumber, "spec.subject.serialNumber")
     \o Violation(~EqualUnsorted(x509req.Subject.Organization, s.Organization), "spec.subject.organizations")
     \o Violation(~EqualUnsorted(x509req.Subject.Country, subj.Countries), "spec.subject.countries")
     \o Violation(~EqualUnsorted(x509req.Subject.Locality, subj.Localities), "spec.subject.localities")
     \o Violation(~EqualUnsorted(x509req.Subject.OrganizationalUnit, subj.OrganizationalUnits), "spec.subject.organizationalUnits")
     \o Violation(~EqualUnsorted(x509req.Subject.PostalCode, subj.PostalCodes), "spec.subject.postCodes")
     \o Violation(~EqualUnsorted(x509req.Subject.StreetAddress, subj.StreetAddresses), "spec.subject.streetAddresses")

\* lines 176-199: the subject; s.Subject is not nil here
SubjectViolations(x509req, s) ==
    LET subj == Deref(s.Subject)
    IN  Violation(x509req.Subject.SerialNumber # subj.SerialNumber, "spec.subject.serialNumber")
     \o Violation(~EqualUnsorted(x509req.Subject.Organization, s.Organization), "spec.subject.organizations")
     \o Violation(~EqualUnsorted(x509req.Subject.Country, subj.Countries), "spec.subject.countries")
     \o Violation(~EqualUnsorted(x509req.Subject.Locality, subj.Localities), "spec.subject.localities")
     \o Violation(~EqualUnsorted(x509req.Subject.OrganizationalUnit, subj.OrganizationalUnits), "spec.subject.organizationalUnits")
     \o Violation(~EqualUnsorted(x509req.Subject.PostalCode, subj.PostalCodes), "spec.subject.postCodes")
     \o Violation(~EqualUnsorted(x509req.Subject.Province, subj.Provinces), "spec.subject.postCodes")
     \o Violation(~EqualUnsorted(x509req.Subject.StreetAddress, subj.StreetAddresses), "spec.subject.streetAddresses")

\* Mutant: the durations are compared as pointers, so an unset one differs from a set one.
RequestSpecViolationsNilDuration(rspec, s) ==
       Violation(rspec.IsCA # s.IsCA, "spec.isCA")
    \o Violation(~EqualKeyUsagesUnsorted(rspec.Usages, s.Usages), "spec.usages")
    \o Violation(s.Duration # rspec.Duration, "spec.duration")
    \o Violation(s.IssuerRef # rspec.IssuerRef, "spec.issuerRef")

\* lines 200-212: the fields read from the CertificateRequest's own spec
RequestSpecViolations(rspec, s) ==
       Violation(rspec.IsCA # s.IsCA, "spec.isCA")
    \o Violation(~EqualKeyUsagesUnsorted(rspec.Usages, s.Usages), "spec.usages")
    \o Violation(s.Duration # None /\ rspec.Duration # None
                   /\ Deref(s.Duration) # Deref(rspec.Duration), "spec.duration")
    \o Violation(s.IssuerRef # rspec.IssuerRef, "spec.issuerRef")

RequestMatchesSpec(r, s) ==
    LET d == DecodeX509CertificateRequestBytes(r.Spec.CSRPEM)
    IN  IF d.err # "" THEN [violations |-> <<>>, err |-> d.err]
        ELSE LET sd == DefaultSubject(s)
             IN  [violations |-> NameViolations(d.x509req, sd)
                                   \o SubjectViolations(d.x509req, sd)
                                   \o RequestSpecViolations(r.Spec, sd),
                  err |-> ""]

----------------------------------------------------------------------------
(* SecretDataAltNamesMatchSpec *)

\* Mutant: the organizations are compared as well.
AltNamesViolationsWithOrganization(x509cert, s) ==
       Violation(x509cert.Subject.CommonName # s.CommonName, "spec.commonName")
    \o Violation(~EqualUnsorted(x509cert.DNSNames, s.DNSNames), "spec.dnsNames")
    \o Violation(~EqualUnsorted(IPAddressesToString(x509cert.IPAddresses), s.IPAddresses), "spec.ipAddresses")
    \o Violation(~EqualUnsorted(URLsToString(x509cert.URIs), s.URISANs), "spec.uriSANs")
    \o Violation(~EqualUnsorted(x509cert.Subject.Organization, s.Organization), "spec.subject.organizations")

\* lines 228-240
AltNamesViolations(x509cert, s) ==
       Violation(x509cert.Subject.CommonName # s.CommonName, "spec.commonName")
    \o Violation(~EqualUnsorted(x509cert.DNSNames, s.DNSNames), "spec.dnsNames")
    \o Violation(~EqualUnsorted(IPAddressesToString(x509cert.IPAddresses), s.IPAddresses), "spec.ipAddresses")
    \o Violation(~EqualUnsorted(URLsToString(x509cert.URIs), s.URISANs), "spec.uriSANs")

SecretDataAltNamesMatchSpec(sec, s) ==
    LET d == DecodeX509CertificateBytes(sec.Data["tls.crt"])
    IN  IF d.err # "" THEN [violations |-> <<>>, err |-> d.err]
        ELSE [violations |-> AltNamesViolations(d.x509cert, s), err |-> ""]

----------------------------------------------------------------------------
(* Inputs of the compliance checks: the values the fields range over.      *)

DNSValues == {"example.com", "www.example.com"}
IPValues == {<<10, 0, 0, 1>>, <<0, 0, 0, 0, 0, 0, 0, 1>>}
IPStringValues == {"10.0.0.1", "::1", "0:0:0:0:0:0:0:1"}
URLValues == {[Scheme |-> "spiffe", Host |-> "cluster.local", Path |-> "/ns/a"],
              [Scheme |-> "https", Host |-> "example.com", Path |-> ""]}
URIStringValues == {"spiffe://cluster.local/ns/a", "https://example.com"}
NameValues == {"Acme", "Jetstack"}
UsageValues == {"digital signature", "server auth"}
DurationValues == {720, 1440}
IssuerRefValues ==
    {[Name |-> "ca-issuer", Kind |-> "Issuer", Group |-> ""],
     [Name |-> "ca-issuer", Kind |-> "ClusterIssuer", Group |-> ""],
     [Name |-> "ca-issuer", Kind |-> "Issuer", Group |-> "cert-manager.io"]}

SpecListFields == {"DNSNames", "IPAddresses", "URISANs", "Organization", "Usages"}
SpecSubjectListFields ==
    {"Countries", "Localities", "OrganizationalUnits", "PostalCodes", "Provinces", "StreetAddresses"}
SANFields == {"DNSNames", "IPAddresses", "URIs"}
CSRSubjectListFields ==
    {"Organization", "Country", "Locality", "OrganizationalUnit", "PostalCode", "Province", "StreetAddress"}

SpecValues(f) ==
    CASE f = "DNSNames" -> DNSValues
      [] f = "IPAddresses" -> IPStringValues
      [] f = "URISANs" -> URIStringValues
      [] f = "Usages" -> UsageValues
      [] OTHER -> NameValues

SANValues(f) ==
    CASE f = "DNSNames" -> DNSValues
      [] f = "IPAddresses" -> IPValues
      [] f = "URIs" -> URLValues

Trim(s) == SubSeq(s, 1, Len(s) - 1)

NoCall == [op |-> "none"]

InitSpec ==
    [CommonName |-> "example.com",
     DNSNames |-> <<"example.com", "www.example.com">>,
     IPAddresses |-> <<>>, URISANs |-> <<>>,
     Subject |-> None, Organization |-> <<>>,
     IsCA |-> FALSE, Usages |-> <<>>, Duration |-> None,
     IssuerRef |-> [Name |-> "ca-issuer", Kind |-> "Issuer", Group |-> ""]]

InitX509 ==
    [Subject |-> [CommonName |-> "example.com", SerialNumber |-> "",
                  Organization |-> <<>>, Country |-> <<>>, Locality |-> <<>>,
                  OrganizationalUnit |-> <<>>, PostalCode |-> <<>>, Province |-> <<>>,
                  StreetAddress |-> <<>>],
     DNSNames |-> <<"www.example.com", "example.com">>,
     IPAddresses |-> <<>>, URIs |-> <<>>]

InitReq ==
    [Spec |-> [CSRPEM |-> [valid |-> TRUE, csr |-> InitX509],
               IsCA |-> FALSE, Usages |-> <<>>, Duration |-> None,
               IssuerRef |-> [Name |-> "ca-issuer", Kind |-> "Issuer", Group |-> ""]]]

InitSecret == [Data |-> [k \in {"tls.crt"} |-> [valid |-> TRUE, cert |-> InitX509]]]

----------------------------------------------------------------------------
(* Changes to the inputs between calls.                                    *)

Edit(newSpec, newReq, newSecret) ==
    /\ edits < MaxEdits
    /\ edits' = edits + 1
    /\ spec' = newSpec
    /\ req' = newReq
    /\ secret' = newSecret
    /\ last' = NoCall
    /\ UNCHANGED <<handlerVars, queue>>

AppendSpec ==
    \E f \in SpecListFields : \E v \in SpecValues(f) :
        Edit([spec EXCEPT ![f] = Append(@, v)], req, secret)

TrimSpec ==
    \E f \in SpecListFields :
        /\ spec[f] # <<>>
        /\ Edit([spec EXCEPT ![f] = Trim(@)], req, secret)

SetSpecSubject ==
    \E s \in {None, Some(EmptySubject)} :
        /\ spec.Subject # s
        /\ Edit([spec EXCEPT !.Subject = s], req, secret)

AppendSpecSubject ==
    \E f \in SpecSubjectListFields : \E v \in NameValues :
        LET subj == Deref(DefaultSubject(spec).Subject)
        IN  Edit([spec EXCEPT !.Subject = Some([subj EXCEPT ![f] = Append(@, v)])], req, secret)

TrimSpecSubject ==
    \E f \in SpecSubjectListFields :
        /\ spec.Subject # None
        /\ Deref(spec.Subject)[f] # <<>>
        /\ Edit([spec EXCEPT !.Subject = Some([Deref(@) EXCEPT ![f] = Trim(@)])], req, secret)

SetSpecSerialNumber ==
    \E v \in {"", "1234"} :
        LET subj == Deref(DefaultSubject(spec).Subject)
        IN  /\ subj.SerialNumber # v
            /\ Edit([spec EXCEPT !.Subject = Some([subj EXCEPT !.SerialNumber = v])], req, secret)

SetSpecCommonName ==
    \E v \in {"example.com", "other.example.com"} :
        /\ spec.CommonName # v
        /\ Edit([spec EXCEPT !.CommonName = v], req, secret)

SetSpecIsCA == Edit([spec EXCEPT !.IsCA = ~@], req, secret)

SetSpecDuration ==
    \E d \in {None} \cup {Some(v) : v \in DurationValues} :
        /\ spec.Duration # d
        /\ Edit([spec EXCEPT !.Duration = d], req, secret)

SetSpecIssuerRef ==
    \E r \in IssuerRefValues :
        /\ spec.IssuerRef # r
        /\ Edit([spec EXCEPT !.IssuerRef = r], req, secret)

x509reqOf(r) == r.Spec.CSRPEM.csr

AppendCSR ==
    \E f \in SANFields : \E v \in SANValues(f) :
        Edit(spec, [req EXCEPT !.Spec.CSRPEM.csr[f] = Append(@, v)], secret)

TrimCSR ==
    \E f \in SANFields :
        /\ x509reqOf(req)[f] # <<>>
        /\ Edit(spec, [req EXCEPT !.Spec.CSRPEM.csr[f] = Trim(@)], secret)

AppendCSRSubject ==
    \E f \in CSRSubjectListFields : \E v \in NameValues :
        Edit(spec, [req EXCEPT !.Spec.CSRPEM.csr.Subject[f] = Append(@, v)], secret)

TrimCSRSubject ==
    \E f \in CSRSubjectListFields :
        /\ x509reqOf(req).Subject[f] # <<>>
        /\ Edit(spec, [req EXCEPT !.Spec.CSRPEM.csr.Subject[f] = Trim(@)], secret)

SetCSRCommonName ==
    \E v \in {"example.com", "other.example.com"} :
        /\ x509reqOf(req).Subject.CommonName # v
        /\ Edit(spec, [req EXCEPT !.Spec.CSRPEM.csr.Subject.CommonName = v], secret)

SetCSRSerialNumber ==
    \E v \in {"", "1234"} :
        /\ x509reqOf(req).Subject.SerialNumber # v
        /\ Edit(spec, [req EXCEPT !.Spec.CSRPEM.csr.Subject.SerialNumber = v], secret)

CorruptCSR ==
    /\ req.Spec.CSRPEM.valid
    /\ Edit(spec, [req EXCEPT !.Spec.CSRPEM.valid = FALSE], secret)

AppendReqUsages ==
    \E v \in UsageValues : Edit(spec, [req EXCEPT !.Spec.Usages = Append(@, v)], secret)

TrimReqUsages ==
    /\ req.Spec.Usages # <<>>
    /\ Edit(spec, [req EXCEPT !.Spec.Usages = Trim(@)], secret)

SetReqIsCA == Edit(spec, [req EXCEPT !.Spec.IsCA = ~@], secret)

SetReqDuration ==
    \E d \in {None} \cup {Some(v) : v \in DurationValues} :
        /\ req.Spec.Duration # d
        /\ Edit(spec, [req EXCEPT !.Spec.Duration = d], secret)

SetReqIssuerRef ==
    \E r \in IssuerRefValues :
        /\ req.Spec.IssuerRef # r
        /\ Edit(spec, [req EXCEPT !.Spec.IssuerRef = r], secret)

x509certOf(s) == s.Data["tls.crt"].cert

AppendCert ==
    \E f \in SANFields : \E v \in SANValues(f) :
        Edit(spec, req, [secret EXCEPT !.Data["tls.crt"].cert[f] = Append(@, v)])

TrimCert ==
    \E f \in SANFields :
        /\ x509certOf(secret)[f] # <<>>
        /\ Edit(spec, req, [secret EXCEPT !.Data["tls.crt"].cert[f] = Trim(@)])

SetCertCommonName ==
    \E v \in {"example.com", "other.example.com"} :
        /\ x509certOf(secret).Subject.CommonName # v
        /\ Edit(spec, req, [secret EXCEPT !.Data["tls.crt"].cert.Subject.CommonName = v])

CorruptCert ==
    /\ secret.Data["tls.crt"].valid
    /\ Edit(spec, req, [secret EXCEPT !.Data["tls.crt"].valid = FALSE])

----------------------------------------------------------------------------
(* Calls of the compliance checks on the current inputs.                   *)

RequestMatchesSpecCall ==
    /\ last # [op |-> "RequestMatchesSpec", out |-> RequestMatchesSpec(req, spec)]
    /\ last' = [op |-> "RequestMatchesSpec", out |-> RequestMatchesSpec(req, spec)]
    /\ UNCHANGED <<complianceVars, handlerVars, queue>>

SecretDataAltNamesMatchSpecCall ==
    /\ last # [op |-> "SecretDataAltNamesMatchSpec", out |-> SecretDataAltNamesMatchSpec(secret, spec)]
    /\ last' = [op |-> "SecretDataAltNamesMatchSpec", out |-> SecretDataAltNamesMatchSpec(secret, spec)]
    /\ UNCHANGED <<complianceVars, handlerVars, queue>>

InitCompliance ==
    /\ spec = InitSpec
    /\ req = InitReq
    /\ secret = InitSecret
    /\ edits = 0
    /\ last = NoCall
    /\ store = <<>>
    /\ family = "WithSecretNamePredicateFunc"
    /\ InitHandlerIdle

NextCompliance ==
    \/ AppendSpec \/ TrimSpec \/ SetSpecSubject \/ AppendSpecSubject \/ TrimSpecSubject
    \/ SetSpecSerialNumber \/ SetSpecCommonName \/ SetSpecIsCA \/ SetSpecDuration
    \/ SetSpecIssuerRef
    \/ AppendCSR \/ TrimCSR \/ AppendCSRSubject \/ TrimCSRSubject \/ SetCSRCommonName
    \/ SetCSRSerialNumber \/ CorruptCSR \/ AppendReqUsages \/ TrimReqUsages \/ SetReqIsCA
    \/ SetReqDuration \/ SetReqIssuerRef
    \/ AppendCert \/ TrimCert \/ SetCertCommonName \/ CorruptCert
    \/ RequestMatchesSpecCall
    \/ SecretDataAltNamesMatchSpecCall

SpecCompliance == InitCompliance /\ [][NextCompliance]_vars

----------------------------------------------------------------------------
(* Listers, predicates and the list-and-filter helpers.                    *)

\* The selector every caller of the model passes: app=web.
Selector == {"app=web"}

SelectorMatches(selector, labels) == selector \subseteq labels

RECURSIVE SelectItems(_, _, _)
SelectItems(items, namespace, selector) ==
    IF items = <<>> THEN <<>>
    ELSE LET rest == SelectItems(Tail(items), namespace, selector)
         IN  IF Head(items).Namespace = namespace /\ SelectorMatches(selector, Head(items).Labels)
             THEN <<Head(items)>> \o rest
             ELSE rest

\* cmlisters.CertificateNamespaceLister.List / CertificateRequestNamespaceLister.List:
\* the objects of the lister's namespace that the selector matches, in the
\* cache's order, or an error.
ListerList(lister, selector) ==
    IF lister.fail THEN [items |-> <<>>, err |-> "lister: cache unavailable"]
    ELSE [items |-> SelectItems(lister.cache, lister.namespace, selector), err |-> ""]

\* Mutant: the next-private-key predicate reads spec.secretName.
CertificatePredicateFuncSecretNameOnly(predicate, crt) ==
    crt.Spec.SecretName = predicate.name

\* lines 79-92: the closures returned by WithSecretNamePredicateFunc and
\* WithNextPrivateKeySecretNamePredicateFunc, applied to crt
CertificatePredicateFunc(predicate, crt) ==
    CASE predicate.kind = "WithSecretNamePredicateFunc" ->
            crt.Spec.SecretName = predicate.name
      [] predicate.kind = "WithNextPrivateKeySecretNamePredicateFunc" ->
            IF crt.Status.NextPrivateKeySecretName = None THEN FALSE
            ELSE Deref(crt.Status.NextPrivateKeySecretName) = predicate.name

\* WithCertificatePredicateFunc: a predicate family applied to a name
WithCertificatePredicateFunc(fam, name) == [kind |-> fam, name |-> name]

RECURSIVE FilterCertificates(_, _)
\* lines 99-104
FilterCertificates(crts, predicate) ==
    IF crts = <<>> THEN <<>>
    ELSE IF CertificatePredicateFunc(predicate, Head(crts))
         THEN <<Head(crts)>> \o FilterCertificates(Tail(crts), predicate)
         ELSE FilterCertificates(Tail(crts), predicate)

\* Mutant: the listing error is dropped and the (empty) listing is filtered.
ListCertificatesMatchingPredicateNoErr(lister, selector, predicate) ==
    LET l == ListerList(lister, selector)
    IN  [out |-> FilterCertificates(l.items, predicate), err |-> "", listCalls |-> 1]

\* lines 94-106; a nil slice and an empty one are both <<>>
ListCertificatesMatchingPredicate(lister, selector, predicate) ==
    LET l == ListerList(lister, selector)
    IN  IF l.err # "" THEN [out |-> <<>>, err |-> l.err, listCalls |-> 1]
        ELSE [out |-> FilterCertificates(l.items, predicate), err |-> "", listCalls |-> 1]

\* strconv of one decimal digit
Digit(d) ==
    CASE d = 0 -> "0" [] d = 1 -> "1" [] d = 2 -> "2" [] d = 3 -> "3" [] d = 4 -> "4"
      [] d = 5 -> "5" [] d = 6 -> "6" [] d = 7 -> "7" [] d = 8 -> "8" [] d = 9 -> "9"

RECURSIVE FormatDecimal(_)
\* fmt.Sprintf("%d", n)
FormatDecimal(n) ==
    IF n < 0 THEN "-" \o FormatDecimal(0 - n)
    ELSE IF n < 10 THEN Digit(n)
    ELSE FormatDecimal(n \div 10) \o Digit(n % 10)

CertificateRequestRevisionAnnotationKey == "cert-manager.io/certificate-revision"

\* m[k] of a Go map: the zero value for a missing key
MapGet(m, k) == IF k \in DOMAIN m THEN m[k] ELSE ""

\* metav1.IsControlledBy: the first owner reference flagged as controller names the owner
IsControlledBy(object, owner) ==
    LET refs == object.OwnerReferences
        ctl == {i \in 1..Len(refs) : refs[i].Controller = Some(TRUE)}
    IN  IF ctl = {} THEN FALSE
        ELSE refs[CHOOSE i \in ctl : \A j \in ctl : i <= j].UID = owner.UID

\* lines 110-123: the closures returned by WithCertificateRevisionPredicateFunc and
\* WithCertificateRequestOwnerPredicateFunc, applied to r
CertificateRequestPredicateFunc(predicate, r) ==
    CASE predicate.kind = "WithCertificateRevisionPredicateFunc" ->
            IF r.Annotations = None THEN FALSE
            ELSE MapGet(Deref(r.Annotations), CertificateRequestRevisionAnnotationKey)
                    = FormatDecimal(predicate.revision)
      [] predicate.kind = "WithCertificateRequestOwnerPredicateFunc" ->
            IsControlledBy(r, predicate.owner)

RECURSIVE MatchesAll(_, _)
\* lines 132-138
MatchesAll(predicates, r) ==
    IF predicates = <<>> THEN TRUE
    ELSE IF ~CertificateRequestPredicateFunc(Head(predicates), r) THEN FALSE
    ELSE MatchesAll(Tail(predicates), r)

RECURSIVE FilterCertificateRequestsFirstOnly(_, _)
\* Mutant: only the first predicate is consulted.
FilterCertificateRequestsFirstOnly(reqs, predicates) ==
    IF reqs = <<>> THEN <<>>
    ELSE IF predicates = <<>> \/ CertificateRequestPredicateFunc(Head(predicates), Head(reqs))
         THEN <<Head(reqs)>> \o FilterCertificateRequestsFirstOnly(Tail(reqs), predicates)
         ELSE FilterCertificateRequestsFirstOnly(Tail(reqs), predicates)

RECURSIVE FilterCertificateRequests(_, _)
\* lines 130-142
FilterCertificateRequests(reqs, predicates) ==
    IF reqs = <<>> THEN <<>>
    ELSE IF MatchesAll(predicates, Head(reqs))
         THEN <<Head(reqs)>> \o FilterCertificateRequests(Tail(reqs), predicates)
         ELSE FilterCertificateRequests(Tail(reqs), predicates)

\* lines 125-145
ListCertificateRequestsMatchingPredicates(lister, selector, predicates) ==
    LET l == ListerList(lister, selector)
    IN  IF l.err # "" THEN [out |-> <<>>, err |-> l.err, listCalls |-> 1]
        ELSE [out |-> FilterCertificateRequests(l.items, predicates), err |-> "", listCalls |-> 1]

----------------------------------------------------------------------------
(* The handler built by EnqueueCertificatesForSecretNameFunc.              *)

\* controllerpkg.KeyFunc: namespace/name, or an error for an object without metadata
KeyFunc(o) ==
    IF ~o.hasMeta THEN [key |-> "", err |-> "object has no meta"]
    ELSE IF o.Namespace = "" THEN [key |-> o.Name, err |-> ""]
    ELSE [key |-> o.Namespace \o "/" \o o.Name, err |-> ""]

\* workqueue.Interface.Add on the set of pending keys
QueueAdd(q, key) == q \cup {key}

\* lines 65-70: the body of the range loop
EnqueueOne(cert, q) ==
    LET k == KeyFunc(cert)
    IN  IF k.err # "" THEN q ELSE QueueAdd(q, k.key)

RECURSIVE EnqueueAll(_, _)
\* lines 64-71
EnqueueAll(cs, q) ==
    IF cs = <<>> THEN q ELSE EnqueueAll(Tail(cs), EnqueueOne(Head(cs), q))

\* lines 51-72: one whole invocation; the queue it leaves
EnqueueCertificatesForSecretName(lister, selector, fam, o, q) ==
    IF o.kind # "Secret" THEN q
    ELSE LET l == ListCertificatesMatchingPredicate(
                      [lister EXCEPT !.namespace = o.Namespace], selector,
                      WithCertificatePredicateFunc(fam, o.Name))
         IN  IF l.err # "" THEN q ELSE EnqueueAll(l.out, q)

----------------------------------------------------------------------------
(* Objects the listers and the handler are fed.                            *)

Certificate(ns, name, labels, secretName, next, hasMeta) ==
    [Namespace |-> ns, Name |-> name, Labels |-> labels, hasMeta |-> hasMeta,
     Spec |-> [SecretName |-> secretName],
     Status |-> [NextPrivateKeySecretName |-> next]]

CertificatePool ==
    {Certificate("ns1", "o1", {"app=web"}, "web-tls", None, TRUE),
     Certificate("ns1", "o2", {"app=web"}, "other", Some("other"), TRUE),
     Certificate("ns1", "o3", {"app=web", "tier=edge"}, "web-tls", Some("web-tls"), TRUE),
     Certificate("ns2", "o1", {"app=web"}, "web-tls", Some("web-tls"), TRUE),
     Certificate("ns1", "o5", {"app=web"}, "web-tls", Some("web-tls"), FALSE),
     Certificate("ns1", "o6", {"app=db"}, "other", Some("web-tls"), TRUE)}

CertificateRequest(name, annotations, refs) ==
    [Namespace |-> "ns1", Name |-> name, Labels |-> {"app=web"}, hasMeta |-> TRUE,
     Annotations |-> annotations, OwnerReferences |-> refs]

Revision(v) == Some([k \in {CertificateRequestRevisionAnnotationKey} |-> v])
OwnerReference(uid, controller) == [UID |-> uid, Controller |-> controller]

CertificateRequestPool ==
    {CertificateRequest("r1", Revision("1"), <<OwnerReference("uid-a", Some(TRUE))>>),
     CertificateRequest("r2", Revision("12"), <<OwnerReference("uid-a", Some(TRUE))>>),
     CertificateRequest("r3", Revision("1"),
        <<OwnerReference("uid-a", None), OwnerReference("uid-b", Some(TRUE))>>),
     CertificateRequest("r4", None, <<OwnerReference("uid-a", Some(TRUE))>>)}

CertificateRequestPredicates ==
    {[kind |-> "WithCertificateRevisionPredicateFunc", revision |-> n] : n \in {1, 12}}
    \cup {[kind |-> "WithCertificateRequestOwnerPredicateFunc", owner |-> [UID |-> u]] :
            u \in {"uid-a", "uid-b"}}

Families == {"WithSecretNamePredicateFunc", "WithNextPrivateKeySecretNamePredicateFunc"}

Objects ==
    {[kind |-> "Secret", Namespace |-> "ns1", Name |-> "web-tls"],
     [kind |-> "Secret", Namespace |-> "ns1", Name |-> "other"],
     [kind |-> "ConfigMap", Namespace |-> "ns1", Name |-> "web-tls"]}

\* The sequences over S of length at most n.
SeqsUpTo(S, n) == UNION {[1..k -> S] : k \in 0..n}

----------------------------------------------------------------------------
(* Calls of the list helpers and of the handler, one call per step.        *)

ListCertificatesCall ==
    \E cache \in SeqsUpTo(CertificatePool, MaxListed), ns \in {"ns1", "ns2"},
       fail \in BOOLEAN, fam \in Families, name \in {"web-tls", "other"} :
        LET lister == [cache |-> cache, namespace |-> ns, fail |-> fail]
            predicate == WithCertificatePredicateFunc(fam, name)
        IN  /\ last = NoCall
            /\ last' = [op |-> "ListCertificatesMatchingPredicate", lister |-> lister,
                        predicates |-> <<predicate>>,
                        out |-> ListCertificatesMatchingPredicate(lister, Selector, predicate)]
            /\ UNCHANGED <<complianceVars, handlerVars, queue>>

ListCertificateRequestsCall ==
    \E cache \in SeqsUpTo(CertificateRequestPool, MaxListed), fail \in BOOLEAN,
       predicates \in SeqsUpTo(CertificateRequestPredicates, 2) :
        LET lister == [cache |-> cache, namespace |-> "ns1", fail |-> fail]
        IN  /\ last = NoCall
            /\ last' = [op |-> "ListCertificateRequestsMatchingPredicates", lister |-> lister,
                        predicates |-> predicates,
                        out |-> ListCertificateRequestsMatchingPredicates(lister, Selector, predicates)]
            /\ UNCHANGED <<complianceVars, handlerVars, queue>>

HandlerCall ==
    \E cache \in SeqsUpTo(CertificatePool, MaxListed), fail \in BOOLEAN,
       fam \in Families, o \in Objects :
        LET lister == [cache |-> cache, namespace |-> "", fail |-> fail]
        IN  /\ last = NoCall
            /\ queue' = EnqueueCertificatesForSecretName(lister, Selector, fam, o, queue)
            /\ last' = [op |-> "EnqueueCertificatesForSecretNameFunc", lister |-> lister,
                        family |-> fam, obj |-> o, queue |-> queue]
            /\ UNCHANGED <<complianceVars, handlerVars>>

\* The caller is done with the result of the call.
Return ==
    /\ last # NoCall
    /\ last' = NoCall
    /\ UNCHANGED <<complianceVars, handlerVars, queue>>

InitList ==
    /\ spec = InitSpec
    /\ req = InitReq
    /\ secret = InitSecret
    /\ edits = 0
    /\ last = NoCall
    /\ store = <<>>
    /\ family = "WithSecretNamePredicateFunc"
    /\ InitHandlerIdle

NextList == ListCertificatesCall \/ ListCertificateRequestsCall \/ HandlerCall \/ Return

SpecList == InitList /\ [][NextList]_vars

----------------------------------------------------------------------------
(* The handler step by step, for invocations that run concurrently.        *)

\* Mutant: `certs` and the loop index belong to the closure's builder and are
\* shared by all invocations.
HandlerBeginShared(p, o) ==
    /\ pc[p] = "idle"
    /\ obj' = [obj EXCEPT ![p] = Some(o)]
    /\ IF o.kind # "Secret"
       THEN /\ pc' = [pc EXCEPT ![p] = "done"]
            /\ UNCHANGED <<certs, idx, err>>
       ELSE \E fail \in BOOLEAN :
            LET l == ListCertificatesMatchingPredicate(
                         [cache |-> store, namespace |-> o.Namespace, fail |-> fail],
                         Selector, WithCertificatePredicateFunc(family, o.Name))
            IN  /\ err' = [err EXCEPT ![p] = l.err]
                /\ certs' = [q \in Procs |-> l.out]
                /\ idx' = [q \in Procs |-> 1]
                /\ pc' = [pc EXCEPT ![p] = IF l.err # "" THEN "done" ELSE "loop"]
    /\ UNCHANGED <<complianceVars, last, store, family, added, queue>>

\* lines 52-62: the type assertion and the listing
HandlerBegin(p, o) ==
    /\ pc[p] = "idle"
    /\ obj' = [obj EXCEPT ![p] = Some(o)]
    /\ IF o.kind # "Secret"
       THEN /\ pc' = [pc EXCEPT ![p] = "done"]
            /\ UNCHANGED <<certs, idx, err>>
       ELSE \E fail \in BOOLEAN :
            LET l == ListCertificatesMatchingPredicate(
                         [cache |-> store, namespace |-> o.Namespace, fail |-> fail],
                         Selector, WithCertificatePredicateFunc(family, o.Name))
            IN  /\ err' = [err EXCEPT ![p] = l.err]
                /\ certs' = [certs EXCEPT ![p] = l.out]
                /\ idx' = [idx EXCEPT ![p] = 1]
                /\ pc' = [pc EXCEPT ![p] = IF l.err # "" THEN "done" ELSE "loop"]
    /\ UNCHANGED <<complianceVars, last, store, family, added, queue>>

\* Mutant: a key error ends the loop instead of skipping the Certificate.
HandlerLoopBreak(p) ==
    /\ pc[p] = "loop"
    /\ idx[p] <= Len(certs[p])
    /\ queue' = EnqueueOne(certs[p][idx[p]], queue)
    /\ added' = [added EXCEPT ![p] = EnqueueOne(certs[p][idx[p]], @)]
    /\ idx' = [idx EXCEPT ![p] = IF KeyFunc(certs[p][idx[p]]).err # "" THEN Len(certs[p]) + 1 ELSE @ + 1]
    /\ UNCHANGED <<complianceVars, last, store, family, pc, obj, certs, err>>

\* lines 64-71: one iteration of the range loop
HandlerLoop(p) ==
    /\ pc[p] = "loop"
    /\ idx[p] <= Len(certs[p])
    /\ queue' = EnqueueOne(certs[p][idx[p]], queue)
    /\ added' = [added EXCEPT ![p] = EnqueueOne(certs[p][idx[p]], @)]
    /\ idx' = [idx EXCEPT ![p] = @ + 1]
    /\ UNCHANGED <<complianceVars, last, store, family, pc, obj, certs, err>>

\* line 72: the range is exhausted and the closure returns
HandlerReturn(p) ==
    /\ pc[p] = "loop"
    /\ idx[p] > Len(certs[p])
    /\ pc' = [pc EXCEPT ![p] = "done"]
    /\ UNCHANGED <<complianceVars, last, store, family, obj, certs, idx, err, added, queue>>

\* The cache is keyed by namespace/name: it holds an object at most once.
Caches ==
    {s \in SeqsUpTo(CertificatePool, MaxStore) :
        \A i, j \in 1..Len(s) : i # j => s[i] # s[j]}

Init ==
    /\ spec = InitSpec
    /\ req = InitReq
    /\ secret = InitSecret
    /\ edits = 0
    /\ last = NoCall
    /\ store \in Caches
    /\ family \in Families
    /\ InitHandlerIdle

Next ==
    \/ \E p \in Procs, o \in Objects : HandlerBegin(p, o)
    \/ \E p \in Procs : HandlerLoop(p)
    \/ \E p \in Procs : HandlerReturn(p)

Spec == Init /\ [][Next]_vars

----------------------------------------------------------------------------
(* Properties of the compliance checks.                                    *)

RequestChecked == last.op = "RequestMatchesSpec" /\ last.out.err = ""
SecretChecked == last.op = "SecretDataAltNamesMatchSpec" /\ last.out.err = ""
Reported(path, out) == path \in Range(out.violations)

SubjectOf(s) == IF s.Subject = None THEN EmptySubject ELSE Deref(s.Subject)

FieldsAgree(r, s) ==
    LET x == x509reqOf(r)
        subj == SubjectOf(s)
    IN  /\ x.Subject.CommonName = s.CommonName
        /\ x.Subject.SerialNumber = subj.SerialNumber
        /\ r.Spec.IsCA = s.IsCA
        /\ Range(x.DNSNames) = Range(s.DNSNames)
        /\ {IPString(ip) : ip \in Range(x.IPAddresses)} = Range(s.IPAddresses)
        /\ {URLString(u) : u \in Range(x.URIs)} = Range(s.URISANs)
        /\ Range(x.Subject.Organization) = Range(s.Organization)
        /\ Range(x.Subject.Country) = Range(subj.Countries)
        /\ Range(x.Subject.Locality) = Range(subj.Localities)
        /\ Range(x.Subject.OrganizationalUnit) = Range(subj.OrganizationalUnits)
        /\ Range(x.Subject.PostalCode) = Range(subj.PostalCodes)
        /\ Range(x.Subject.Province) = Range(subj.Provinces)
        /\ Range(x.Subject.StreetAddress) = Range(subj.StreetAddresses)
        /\ Range(r.Spec.Usages) = Range(s.Usages)
        /\ s.IssuerRef = r.Spec.IssuerRef
        /\ (s.Duration # None /\ r.Spec.Duration # None => s.Duration = r.Spec.Duration)

\* C1: for a decodable request, RequestMatchesSpec returns no violation exactly
\* when every checked field agrees: the scalars are equal, the lists are equal as
\* unordered collections, issuerRef is equal, and the durations are equal when
\* both are set.
C1_EmptyIffFieldsAgree ==
    RequestChecked => (last.out.violations = <<>> <=> FieldsAgree(req, spec))

C1_Witness ==
    /\ RequestChecked
    /\ last.out.violations = <<>>
    /\ spec.Subject # None
    /\ Deref(spec.Subject).Provinces # <<>>

\* A list with two neighbours exchanged, or with one entry repeated.
SeqVariants(s) ==
    {[s EXCEPT ![i] = s[i + 1], ![i + 1] = s[i]] : i \in 1..(Len(s) - 1)}
        \cup {Append(s, s[i]) : i \in 1..Len(s)}

SpecPath(f) ==
    CASE f = "DNSNames" -> "spec.dnsNames"
      [] f = "IPAddresses" -> "spec.ipAddresses"
      [] f = "URISANs" -> "spec.uriSANs"
      [] f = "URIs" -> "spec.uriSANs"
      [] f = "Organization" -> "spec.subject.organizations"
      [] f = "Usages" -> "spec.usages"
      [] f \in {"Countries", "Country"} -> "spec.subject.countries"
      [] f \in {"Localities", "Locality"} -> "spec.subject.localities"
      [] f \in {"OrganizationalUnits", "OrganizationalUnit"} -> "spec.subject.organizationalUnits"
      [] f \in {"PostalCodes", "PostalCode", "Provinces", "Province"} -> "spec.subject.postCodes"
      [] f \in {"StreetAddresses", "StreetAddress"} -> "spec.subject.streetAddresses"

\* <<path, spec>>: the spec with one of its lists permuted or an entry repeated
SpecVariants(s, fields) ==
    UNION {{<<SpecPath(f), [s EXCEPT ![f] = t]>> : t \in SeqVariants(s[f])} : f \in fields}

SpecSubjectVariants(s) ==
    IF s.Subject = None THEN {}
    ELSE UNION {{<<SpecPath(f), [s EXCEPT !.Subject = Some([Deref(@) EXCEPT ![f] = t])]>> :
                    t \in SeqVariants(Deref(s.Subject)[f])} : f \in SpecSubjectListFields}

ReqVariants(r) ==
    UNION {{<<SpecPath(f), [r EXCEPT !.Spec.CSRPEM.csr[f] = t]>> :
                t \in SeqVariants(x509reqOf(r)[f])} : f \in SANFields}
    \cup UNION {{<<SpecPath(f), [r EXCEPT !.Spec.CSRPEM.csr.Subject[f] = t]>> :
                t \in SeqVariants(x509reqOf(r).Subject[f])} : f \in CSRSubjectListFields}
    \cup {<<"spec.usages", [r EXCEPT !.Spec.Usages = t]>> : t \in SeqVariants(r.Spec.Usages)}

SecretVariants(sec) ==
    UNION {{<<SpecPath(f), [sec EXCEPT !.Data["tls.crt"].cert[f] = t]>> :
                t \in SeqVariants(x509certOf(sec)[f])} : f \in SANFields}

\* C2: exchanging entries of a list, or repeating one, on either side never
\* changes whether the list's path is among the violations returned by
\* RequestMatchesSpec or SecretDataAltNamesMatchSpec.
C2_OrderAndDuplicateInsensitive ==
    /\ RequestChecked =>
        /\ \A v \in SpecVariants(spec, SpecListFields) \cup SpecSubjectVariants(spec) :
              Reported(v[1], RequestMatchesSpec(req, v[2])) <=> Reported(v[1], last.out)
        /\ \A v \in ReqVariants(req) :
              Reported(v[1], RequestMatchesSpec(v[2], spec)) <=> Reported(v[1], last.out)
    /\ SecretChecked =>
        /\ \A v \in SpecVariants(spec, {"DNSNames", "IPAddresses", "URISANs"}) :
              Reported(v[1], SecretDataAltNamesMatchSpec(secret, v[2])) <=> Reported(v[1], last.out)
        /\ \A v \in SecretVariants(secret) :
              Reported(v[1], SecretDataAltNamesMatchSpec(v[2], spec)) <=> Reported(v[1], last.out)

C2_Witness ==
    /\ RequestChecked
    /\ spec.DNSNames = <<"example.com", "www.example.com", "example.com">>
    /\ x509reqOf(req).DNSNames = <<"www.example.com", "example.com">>
    /\ ~Reported("spec.dnsNames", last.out)

\* C3: no violation list returned by RequestMatchesSpec holds the same path twice.
C3_DistinctPaths ==
    last.op = "RequestMatchesSpec" =>
        \A i, j \in 1..Len(last.out.violations) :
            i # j => last.out.violations[i] # last.out.violations[j]

AltNamePaths == {"spec.commonName", "spec.dnsNames", "spec.ipAddresses", "spec.uriSANs"}

\* The spec with one field that SecretDataAltNamesMatchSpec does not read changed.
UncheckedVariants(s) ==
    {[s EXCEPT !.Subject = v] :
        v \in {None, Some(EmptySubject), Some([EmptySubject EXCEPT !.Provinces = <<"Acme">>])}}
    \cup {[s EXCEPT !.Organization = v] : v \in {<<>>, <<"Acme">>}}
    \cup {[s EXCEPT !.IsCA = v] : v \in BOOLEAN}
    \cup {[s EXCEPT !.Usages = v] : v \in {<<>>, <<"server auth">>}}
    \cup {[s EXCEPT !.Duration = v] : v \in {None, Some(720), Some(1440)}}
    \cup {[s EXCEPT !.IssuerRef = v] : v \in IssuerRefValues}

\* C4: for a decodable certificate, SecretDataAltNamesMatchSpec returns only the
\* paths of commonName, dnsNames, ipAddresses and uriSANs, and the list does not
\* change when only the subject, isCA, usages, duration or issuerRef of the spec do.
C4_AltNamesOnly ==
    SecretChecked =>
        /\ Range(last.out.violations) \subseteq AltNamePaths
        /\ \A s \in UncheckedVariants(spec) : SecretDataAltNamesMatchSpec(secret, s) = last.out

C4_Witness ==
    /\ SecretChecked
    /\ spec.Organization # <<>>
    /\ spec.IsCA
    /\ last.out.violations = <<>>

\* C5: spec.duration is reported exactly when spec and request both set a
\* duration and the two differ.
C5_DurationOnlyWhenBothSet ==
    RequestChecked =>
        (Reported("spec.duration", last.out)
            <=> /\ spec.Duration # None
                /\ req.Spec.Duration # None
                /\ Deref(spec.Duration) # Deref(req.Spec.Duration))

C5_Witness ==
    /\ RequestChecked
    /\ spec.Duration = None
    /\ req.Spec.Duration = Some(720)
    /\ ~Reported("spec.duration", last.out)

----------------------------------------------------------------------------
(* Properties of the list helpers and of the handler.                      *)

IsSecret(p) == obj[p] # None /\ Deref(obj[p]).kind = "Secret"
Listed(p) == pc[p] = "done" /\ IsSecret(p) /\ err[p] = ""

\* The Certificates of the store that the claim says the handler selects for Secret o.
Selected(fam, o) ==
    {c \in Range(store) :
        /\ c.Namespace = o.Namespace
        /\ Selector \subseteq c.Labels
        /\ fam = "WithSecretNamePredicateFunc" => c.Spec.SecretName = o.Name
        /\ fam = "WithNextPrivateKeySecretNamePredicateFunc" =>
              c.Status.NextPrivateKeySecretName = Some(o.Name)}

KeyOf(c) == c.Namespace \o "/" \o c.Name

\* C6: an invocation for Secret N of namespace NS whose listing and key
\* computations succeed adds exactly the keys of the Certificates of NS under the
\* selector that satisfy the handler's predicate family applied to N; no other key
\* is ever added.
C6_EnqueuesExactlyMatching ==
    \A p \in Procs :
        IsSecret(p) =>
            LET sel == Selected(family, Deref(obj[p]))
            IN  /\ added[p] \subseteq {KeyOf(c) : c \in sel}
                /\ (Listed(p) /\ \A c \in sel : c.hasMeta) => added[p] = {KeyOf(c) : c \in sel}

C6_Witness ==
    \E p \in Procs :
        /\ Listed(p)
        /\ family = "WithNextPrivateKeySecretNamePredicateFunc"
        /\ Deref(obj[p]).Name = "web-tls"
        /\ added[p] = {"ns1/o3"}
        /\ \E i, j \in 1..Len(store) :
              /\ store[i].Namespace = "ns2"
              /\ store[j].Namespace = "ns1" /\ store[j].Status.NextPrivateKeySecretName = None

\* C9: a key error skips only the Certificate it concerns: an invocation whose
\* listing succeeded ends having added the key of every matching Certificate whose
\* key can be computed, wherever it stands in the listing.
C9_KeyErrorSkipsOne ==
    \A p \in Procs :
        Listed(p) =>
            added[p] = {KeyOf(c) : c \in {c \in Selected(family, Deref(obj[p])) : c.hasMeta}}

C9_Witness ==
    \E p \in Procs :
        /\ Listed(p)
        /\ Len(certs[p]) = 3
        /\ certs[p][1].hasMeta /\ ~certs[p][2].hasMeta /\ certs[p][3].hasMeta
        /\ certs[p][1] # certs[p][3]
        /\ added[p] = {KeyOf(certs[p][1]), KeyOf(certs[p][3])}

Secrets == {o \in Objects : o.kind = "Secret"}

\* What one invocation for Secret s, run alone on an empty queue, leaves pending.
SingleInvocation(s) ==
    EnqueueCertificatesForSecretName([cache |-> store, namespace |-> "", fail |-> FALSE],
                                     Selector, family, s, {})

OnlySecret(s) == \A p \in Procs : pc[p] # "idle" => obj[p] = Some(s)

C10_Pending ==
    \A s \in Secrets :
        OnlySecret(s) =>
            /\ queue \subseteq SingleInvocation(s)
            /\ (\E p \in Procs : Listed(p)) => queue = SingleInvocation(s)

\* C10: however many invocations for one Secret run, one after another or
\* interleaved, the pending keys are those a single invocation leaves, and no step
\* changes the stored Certificates or the object an invocation was given.
C10_IdempotentReentrant ==
    /\ []C10_Pending
    /\ [][/\ store' = store
          /\ \A p \in Procs : obj[p] # None => obj'[p] = obj[p]]_vars

C10_Witness ==
    /\ \A p \in Procs : Listed(p) /\ Deref(obj[p]).Name = "web-tls"
    /\ Cardinality(queue) = 2
    /\ queue = SingleInvocation(Deref(obj[1]))

ListOps == {"ListCertificatesMatchingPredicate", "ListCertificateRequestsMatchingPredicates"}

Listing == ListerList(last.lister, Selector).items

Satisfies(x) ==
    IF last.op = "ListCertificatesMatchingPredicate"
    THEN CertificatePredicateFunc(last.predicates[1], x)
    ELSE \A i \in 1..Len(last.predicates) : CertificateRequestPredicateFunc(last.predicates[i], x)

Kept == {j \in 1..Len(Listing) : Satisfies(Listing[j])}

\* C7: when List succeeds, the list helpers call it once and return the listed
\* resources that satisfy every predicate, each as often as listed and in the
\* listing's order.
C7_OrderPreservingFilter ==
    (last.op \in ListOps /\ ~last.lister.fail) =>
        /\ last.out.err = ""
        /\ last.out.listCalls = 1
        /\ Len(last.out.out) = Cardinality(Kept)
        /\ \A j \in Kept : last.out.out[Cardinality({k \in Kept : k <= j})] = Listing[j]

C7_Witness ==
    /\ last.op = "ListCertificateRequestsMatchingPredicates"
    /\ ~last.lister.fail
    /\ Len(last.predicates) = 2
    /\ last.predicates[1] # last.predicates[2]
    /\ Len(Listing) = 2
    /\ last.out.out = <<Listing[2]>>
    /\ CertificateRequestPredicateFunc(last.predicates[1], Listing[1])

\* C8: when List fails, the list helpers return its error and no resource, and the
\* handler leaves the queue as it was.
C8_ListFailureYieldsNothing ==
    /\ (last.op \in ListOps /\ last.lister.fail) =>
          /\ last.out.err # ""
          /\ last.out.err = ListerList(last.lister, Selector).err
          /\ last.out.out = <<>>
    /\ (/\ last.op = "EnqueueCertificatesForSecretNameFunc"
        /\ last.obj.kind = "Secret"
        /\ last.lister.fail) => queue = last.queue

C8_Witness ==
    /\ last.op = "EnqueueCertificatesForSecretNameFunc"
    /\ last.obj.kind = "Secret"
    /\ last.lister.fail
    /\ queue = {"ns1/o1"}
    /\ \E i \in 1..Len(last.lister.cache) :
          /\ KeyOf(last.lister.cache[i]) = "ns1/o3"
          /\ last.family = "WithSecretNamePredicateFunc"
          /\ last.obj.Name = "web-tls"

====
